---------------------------- MODULE Spec2Model ----------------------------
(***************************************************************************)
(* PhoneNormalizer: the three scripts Phone_nor1.py, PhoneNor3.py and      *)
(* Phone_norr5.py.  Each script loads two dialing-code tables and then     *)
(* maps normalize_number over the rows of an uploaded sheet.               *)
(*                                                                         *)
(* A Python string is a sequence of one-character strings.  The value None *)
(* is the one-element sequence NoneValue.  The phonenumbers library is not *)
(* part of the repository: its parse / validity answer is an input of the  *)
(* step (the variable lib), bounded by what the library can answer.        *)
(***************************************************************************)
EXTENDS Integers, Sequences, FiniteSets, TLC

(***************************************************************************)
(* Bounds of the model.                                                    *)
(***************************************************************************)
\* longest subscriber tail appended to a prefix when a raw number is built
MaxBody == 10

(***************************************************************************)
(* Python string primitives.                                               *)
(***************************************************************************)
DigitChars == {"0", "1", "2", "3", "4", "5", "6", "7", "8", "9"}

Min(a, b) == IF a < b THEN a ELSE b

Max(a, b) == IF a < b THEN b ELSE a

\* s[a:b] with 0 <= a, 0 <= b (Python slice, clipped to the string)
Slice(s, a, b) == SubSeq(s, Min(a, Len(s)) + 1, Min(b, Len(s)))

\* s[n:]
Drop(s, n) == SubSeq(s, Min(n, Len(s)) + 1, Len(s))

\* s[:n]
Take(s, n) == SubSeq(s, 1, Min(n, Len(s)))

\* a slip: s[:n], the first n characters
LastN_fromFront(s, n) == SubSeq(s, 1, Min(n, Len(s)))

\* s[-n:]
LastN(s, n) == SubSeq(s, Max(Len(s) - n, 0) + 1, Len(s))

\* s.startswith(p)
StartsWith(s, p) == Len(p) <= Len(s) /\ SubSeq(s, 1, Len(p)) = p

IsDigit(ch) == ch \in DigitChars

\* re.sub(r"\D", "", s)  and  "".join(c for c in s if c.isdigit())
DigitsOf(s) == SelectSeq(s, IsDigit)

IsDigitOrPlus(ch) == ch \in DigitChars \cup {"+"}

\* re.sub(r"[^\d+]", "", s)
DigitsAndPlusOf(s) == SelectSeq(s, IsDigitOrPlus)

\* re.search(r"\d", s)
HasDigit(s) == \E i \in 1..Len(s) : IsDigit(s[i])

RECURSIVE LStripZeros(_)
\* s.lstrip("0")
LStripZeros(s) == IF s # <<>> /\ Head(s) = "0" THEN LStripZeros(Tail(s)) ELSE s

RECURSIVE LStripSpaces(_)
LStripSpaces(s) == IF s # <<>> /\ Head(s) = " " THEN LStripSpaces(Tail(s)) ELSE s

RECURSIVE RStripSpaces(_)
RStripSpaces(s) ==
    IF s # <<>> /\ s[Len(s)] = " " THEN RStripSpaces(SubSeq(s, 1, Len(s) - 1)) ELSE s

\* s.strip()
Strip(s) == RStripSpaces(LStripSpaces(s))

LowerChar(ch) ==
    CASE ch = "U" -> "u"
      [] ch = "K" -> "k"
      [] ch = "G" -> "g"
      [] ch = "B" -> "b"
      [] ch = "I" -> "i"
      [] ch = "S" -> "s"
      [] ch = "A" -> "a"
      [] OTHER -> ch

\* s.lower(), over the letters the model's country names use
Lower(s) == [i \in 1..Len(s) |-> LowerChar(s[i])]

\* the Python value None, and str(x)
NoneValue == <<"<None>">>

Str(x) == IF x = NoneValue THEN <<"N", "o", "n", "e">> ELSE x

\* "not number or pd.isna(number)": None and the empty string
IsNullLike(x) == x = NoneValue \/ x = <<>>

(***************************************************************************)
(* Country names.                                                          *)
(***************************************************************************)
united_states == <<"u","n","i","t","e","d"," ","s","t","a","t","e","s">>
usa == <<"u","s","a">>
canada == <<"c","a","n","a","d","a">>
trinidad_and_tobago ==
    <<"t","r","i","n","i","d","a","d"," ","a","n","d"," ","t","o","b","a","g","o">>
cuba == <<"c","u","b","a">>
haiti == <<"h","a","i","t","i">>
bahamas == <<"b","a","h","a","m","a","s">>
bermuda == <<"b","e","r","m","u","d","a">>
united_kingdom == <<"u","n","i","t","e","d"," ","k","i","n","g","d","o","m">>
uk == <<"u","k">>
gb == <<"g","b">>
u_k_ == <<"u",".","k",".">>
unitedkingdom == <<"u","n","i","t","e","d","k","i","n","g","d","o","m">>
india == <<"i","n","d","i","a">>
mexico == <<"m","e","x","i","c","o">>
brazil == <<"b","r","a","z","i","l">>
australia == <<"a","u","s","t","r","a","l","i","a">>
new_zealand == <<"n","e","w"," ","z","e","a","l","a","n","d">>
france == <<"f","r","a","n","c","e">>
china == <<"c","h","i","n","a">>
egypt == <<"e","g","y","p","t">>
antigua_and_barbuda ==
    <<"a","n","t","i","g","u","a"," ","a",
      "n","d"," ","b","a","r","b","u","d","a">>
the_bahamas == <<"t","h","e"," ","b","a","h","a","m","a","s">>
barbados == <<"b","a","r","b","a","d","o","s">>
dominica == <<"d","o","m","i","n","i","c","a">>
dominican_republic ==
    <<"d","o","m","i","n","i","c","a","n",
      " ","r","e","p","u","b","l","i","c">>
grenada == <<"g","r","e","n","a","d","a">>
jamaica == <<"j","a","m","a","i","c","a">>
saint_kitts_and_nevis ==
    <<"s","a","i","n","t"," ","k","i","t","t",
      "s"," ","a","n","d"," ","n","e","v","i","s">>
st_kitts_and_nevis ==
    <<"s","t"," ","k","i","t","t","s"," ",
      "a","n","d"," ","n","e","v","i","s">>
saint_lucia == <<"s","a","i","n","t"," ","l","u","c","i","a">>
st_lucia == <<"s","t"," ","l","u","c","i","a">>
saint_vincent_and_the_grenadines ==
    <<"s","a","i","n","t"," ","v","i","n","c","e","n","t"," ","a","n",
      "d"," ","t","h","e"," ","g","r","e","n","a","d","i","n","e","s">>
st_vincent_and_the_grenadines ==
    <<"s","t"," ","v","i","n","c","e","n","t"," ","a","n","d",
      " ","t","h","e"," ","g","r","e","n","a","d","i","n","e","s">>
atlantis == <<"a","t","l","a","n","t","i","s">>
antarctica == <<"a","n","t","a","r","c","t","i","c","a">>

(***************************************************************************)
(* The dialing-code tables.                                                *)
(***************************************************************************)
\* dict.get(key): None and "" are both falsy, so a miss is the empty string
Get(table, key) == IF key \in DOMAIN table THEN table[key] ELSE <<>>

\* load_internal_country_codes: pycountry's lower-cased names with the library's
\* calling code of each (the rows the model's inputs touch)
internal_codes ==
    (united_states :> <<"1">>) @@ (canada :> <<"1">>)
    @@ (trinidad_and_tobago :> <<"1">>) @@ (bahamas :> <<"1">>)
    @@ (bermuda :> <<"1">>) @@ (cuba :> <<"5","3">>) @@ (haiti :> <<"5","0","9">>)
    @@ (united_kingdom :> <<"4","4">>) @@ (india :> <<"9","1">>)
    @@ (mexico :> <<"5","2">>) @@ (brazil :> <<"5","5">>)
    @@ (australia :> <<"6","1">>) @@ (new_zealand :> <<"6","4">>)
    @@ (france :> <<"3","3">>) @@ (china :> <<"8","6">>) @@ (egypt :> <<"2","0">>)

\* the dict built by load_external_country_codes when Country_codes.xlsx is
\* missing, unreadable or has no dialing column
NoExternalCodes == [k \in {} |-> <<>>]

\* a Country_codes.xlsx: a row per country, the dialing cell reduced to its
\* digits ("1-242" gives "1242", a cell without digits gives "")
SheetExternalCodes ==
    (usa :> <<"1">>) @@ (uk :> <<"4","4">>) @@ (bahamas :> <<"1","2","4","2">>)
    @@ (trinidad_and_tobago :> <<"1","8","6","8">>) @@ (india :> <<"9","1">>)
    @@ (antarctica :> <<>>)

ExternalTables == {NoExternalCodes, SheetExternalCodes}

Range(f) == {f[k] : k \in DOMAIN f}

\* set(filter(None, codes)) of Phone_nor1.py and PhoneNor3.py
AllCodes(table) == Range(table) \ {<<>>}

(***************************************************************************)
(* The phonenumbers library (not part of the repository).                  *)
(*                                                                         *)
(* What the library would answer for the strings a row makes the scripts   *)
(* parse is the record lib: lib.nanp is the set of ten-digit national      *)
(* numbers it holds valid under calling code 1, lib.foreign tells whether  *)
(* it holds "+" and the row's digits valid under another calling code.     *)
(***************************************************************************)
\* the library's calling codes that the model's digit strings can start with
LibCodes ==
    {<<"1">>, <<"2","0">>, <<"3","3">>, <<"4","4">>, <<"5","2">>, <<"5","3">>,
     <<"5","5">>, <<"6","1">>, <<"6","4">>, <<"8","6">>, <<"9","1">>,
     <<"5","0","9">>}

\* the calling code a "+"-number starts with (calling codes are prefix-free);
\* the empty string when there is none and parse raises
LibCountryCode(d) ==
    IF \E c \in LibCodes : StartsWith(d, c)
    THEN CHOOSE c \in LibCodes : StartsWith(d, c)
    ELSE <<>>

\* every NANP national number has ten digits and starts with 2..9
WellFormedNanp(x) == Len(x) = 10 /\ x[1] \notin {"0", "1"}

\* the national numbers the scripts can ask the library about for digits d
LibCandidates(d) ==
    {x \in {d, Drop(d, 1), Drop(d, 3), Drop(d, 4), LastN(d, 10), LastN(Drop(d, 1), 10)} :
        WellFormedNanp(x)}

LibAnswers(d) ==
    [nanp : SUBSET LibCandidates(d),
     foreign : IF LibCountryCode(d) \in {<<>>, <<"1">>} THEN {FALSE} ELSE BOOLEAN]

NoParse == [ok |-> FALSE, cc |-> <<>>, nsn |-> <<>>]

\* phonenumbers.parse("+" d) when it does not raise and the number is valid
LibParseInternational(d, l) ==
    LET cc == LibCountryCode(d)
        rest == Drop(d, Len(cc))
    IN  IF cc = <<>> THEN NoParse
        ELSE IF cc = <<"1">>
        THEN IF rest \in l.nanp THEN [ok |-> TRUE, cc |-> cc, nsn |-> rest] ELSE NoParse
        ELSE IF l.foreign /\ Len(LStripZeros(rest)) >= 2
        THEN [ok |-> TRUE, cc |-> cc, nsn |-> LStripZeros(rest)]
        ELSE NoParse

\* phonenumbers.parse(d, "US") of a number written without "+": the US exit code
\* 011 makes it international, otherwise the calling code is 1 and a leading
\* national prefix 1 is dropped
LibParseNational(d, l) ==
    IF StartsWith(d, <<"0","1","1">>) THEN LibParseInternational(Drop(d, 3), l)
    ELSE LET nsn == IF Len(d) = 11 /\ StartsWith(d, <<"1">>) THEN Drop(d, 1) ELSE d
         IN  IF nsn \in l.nanp THEN [ok |-> TRUE, cc |-> <<"1">>, nsn |-> nsn] ELSE NoParse

\* parse(n, "US") followed by is_valid_number: a valid parse or NoParse
\* (parse(None) raises NumberParseException)
LibParseValid(n, l) ==
    IF n = NoneValue THEN NoParse
    ELSE IF StartsWith(Strip(n), <<"+">>) THEN LibParseInternational(DigitsOf(n), l)
    ELSE LibParseNational(DigitsOf(n), l)

\* format_number(p, PhoneNumberFormat.E164)
LibE164(p) == <<"+">> \o p.cc \o p.nsn

(***************************************************************************)
(* Results: (corrected number, verification label, comparison label).      *)
(* A label is its fixed text (kind) and the two codes an f-string puts     *)
(* into it.  e164 is the local corrected number before display formatting, *)
(* path names the return statement that produced the result.               *)
(***************************************************************************)
Label(kind) == [kind |-> kind, from |-> <<>>, to |-> <<>>]

LabelTo(kind, to) == [kind |-> kind, from |-> <<>>, to |-> to]

LabelFromTo(kind, from, to) == [kind |-> kind, from |-> from, to |-> to]

NoComparison == "none"

Result(corrected, verification, comparison, e164, path) ==
    [corrected |-> corrected, verification |-> verification,
     comparison |-> comparison, e164 |-> e164, path |-> path]

NoResult == Result(<<>>, Label("none"), NoComparison, <<>>, "none")

(***************************************************************************)
(* Phone_nor1.py                                                           *)
(***************************************************************************)
caribbean_countries ==
    {antigua_and_barbuda, the_bahamas, bahamas, barbados, cuba, dominica,
     dominican_republic, grenada, haiti, jamaica, saint_kitts_and_nevis,
     st_kitts_and_nevis, saint_lucia, st_lucia, saint_vincent_and_the_grenadines,
     st_vincent_and_the_grenadines, trinidad_and_tobago}

IsNanp_nor1(c) == c \in {united_states, usa, canada} \/ c \in caribbean_countries

\* a slip: the middle group cut at 7 instead of 6
NanpDisplay_wrongGroup(national) ==
    <<"+", "1", "-", "(">> \o Take(national, 3) \o <<")", "-">>
    \o Slice(national, 3, 7) \o <<"-">> \o Drop(national, 7)

\* f"+1-({national[:3]})-{national[3:6]}-{national[6:]}"
NanpDisplay(national) ==
    <<"+", "1", "-", "(">> \o Take(national, 3) \o <<")", "-">>
    \o Slice(national, 3, 6) \o <<"-">> \o Drop(national, 6)

\* a slip: digits[3:], one national digit too many dropped
StripCode_dropThree(digits, code) ==
    IF StartsWith(digits, code) THEN Drop(digits, 3) ELSE digits

\* national = digits[2:] if digits.startswith(code) else digits
StripCode(digits, code) == IF StartsWith(digits, code) THEN Drop(digits, 2) ELSE digits

format_by_country_nor1(e164_number, country_clean) ==
    LET digits == DigitsOf(e164_number)
    IN  IF digits = <<>> THEN e164_number
        ELSE IF IsNanp_nor1(country_clean) THEN NanpDisplay(LastN(digits, 10))
        ELSE IF country_clean = united_kingdom
        THEN LET national == StripCode(digits, <<"4","4">>)
             IN  <<"+","4","4","-">> \o Take(national, 4) \o <<"-">>
                 \o Slice(national, 4, 7) \o <<"-">> \o Drop(national, 7)
        ELSE IF country_clean = mexico
        THEN LET national == StripCode(digits, <<"5","2">>)
             IN  <<"+","5","2","-">> \o Take(national, 3) \o <<"-">>
                 \o Slice(national, 3, 6) \o <<"-">> \o Drop(national, 6)
        ELSE IF country_clean = australia
        THEN LET national == StripCode(digits, <<"6","1">>)
             IN  <<"+","6","1","-">> \o Take(national, 1) \o <<"-">>
                 \o Slice(national, 1, 5) \o <<"-">> \o Drop(national, 5)
        ELSE IF country_clean = new_zealand
        THEN LET national == StripCode(digits, <<"6","4">>)
             IN  <<"+","6","4","-">> \o Take(national, 1) \o <<"-">>
                 \o Slice(national, 1, 4) \o <<"-">> \o Drop(national, 4)
        ELSE IF country_clean = india
        THEN LET national == StripCode(digits, <<"9","1">>)
             IN  IF Len(national) >= 10
                 THEN <<"+","9","1","-">> \o Take(national, 2) \o <<"-">> \o Drop(national, 2)
                 ELSE <<"+","9","1","-">> \o national
        ELSE IF country_clean = brazil
        THEN LET national == StripCode(digits, <<"5","5">>)
             IN  <<"+","5","5","-">> \o Take(national, 2) \o <<"-">>
                 \o Slice(national, 2, 6) \o <<"-">> \o Drop(national, 6)
        ELSE e164_number

\* a slip: key=len, the shortest code first
RECURSIVE SortedByLength_shortestFirst(_)
SortedByLength_shortestFirst(codes) ==
    IF codes = {} THEN <<>>
    ELSE LET c == CHOOSE x \in codes : \A y \in codes : Len(x) <= Len(y)
         IN  <<c>> \o SortedByLength_shortestFirst(codes \ {c})

\* the codes of a set in the order sorted(codes, key=lambda x: -len(x)) walks them
RECURSIVE SortedByLength(_)
SortedByLength(codes) ==
    IF codes = {} THEN <<>>
    ELSE LET c == CHOOSE x \in codes : \A y \in codes : Len(y) <= Len(x)
         IN  <<c>> \o SortedByLength(codes \ {c})

\* for code in ordered: if digits.startswith(code): matched_code = code; break
RECURSIVE FirstMatch(_, _)
FirstMatch(ordered, digits) ==
    IF ordered = <<>> THEN <<>>
    ELSE IF StartsWith(digits, Head(ordered)) THEN Head(ordered)
    ELSE FirstMatch(Tail(ordered), digits)

MatchedCode(digits, ext) ==
    FirstMatch(SortedByLength(AllCodes(internal_codes) \cup AllCodes(ext)), digits)

\* correct_code = internal.get(c); if not correct_code: correct_code = external.get(c)
CorrectCode(c, ext) ==
    IF Get(internal_codes, c) # <<>> THEN Get(internal_codes, c) ELSE Get(ext, c)

\* a slip: the matched length dropped whatever the matched code begins with
RemainingAfterMatch_fullLength(digits, matched_code, correct_code) ==
    Drop(digits, Len(matched_code))

\* remaining_digits = digits[len(matched_code):]
\* if matched_code.startswith("1") and correct_code != "1":
\*     remaining_digits = digits[len("1"):]
RemainingAfterMatch(digits, matched_code, correct_code) ==
    IF StartsWith(matched_code, <<"1">>) /\ correct_code # <<"1">>
    THEN Drop(digits, 1)
    ELSE Drop(digits, Len(matched_code))

\* the "default logic for all other countries" up to the corrected number
GenericCorrect(digits0, correct_code, ext, checksEmpty) ==
    LET matched_code == MatchedCode(digits0, ext)
    IN  IF checksEmpty /\ digits0 = <<>>
        THEN Result(<<>>, Label("Missing Number"), NoComparison, <<>>, "generic_empty")
        ELSE IF matched_code # <<>>
        THEN LET remaining_digits ==
                     RemainingAfterMatch(digits0, matched_code, correct_code)
             IN  IF matched_code = correct_code
                 THEN Result(<<>>, Label("Valid & Matched"), NoComparison,
                             <<"+">> \o digits0, "matched")
                 ELSE Result(<<>>,
                             LabelFromTo("Corrected from", matched_code, correct_code),
                             NoComparison,
                             <<"+">> \o correct_code \o remaining_digits, "corrected")
        ELSE LET digits == LStripZeros(digits0)
             IN  IF checksEmpty /\ digits = <<>>
                 THEN Result(<<>>, Label("Missing Number"), NoComparison, <<>>,
                             "stripped_empty")
                 ELSE Result(<<>>, LabelTo("Added country code", correct_code),
                             NoComparison, <<"+">> \o correct_code \o digits, "added")

\* a slip: the E.164 string returned without display formatting
Displayed_nor1_unformatted(e164, label, country_clean, path) ==
    Result(e164, label, NoComparison, e164, path)

\* display = format_by_country(x, country_clean); return display, label
Displayed_nor1(e164, label, country_clean, path) ==
    Result(format_by_country_nor1(e164, country_clean), label, NoComparison, e164, path)

Nanp_nor1(number, country_clean, l) ==
    LET cleaned0 == DigitsAndPlusOf(Str(number))
        cleaned == IF StartsWith(cleaned0, <<"+">>) THEN cleaned0 ELSE <<"+">> \o cleaned0
        parsed == LibParseValid(cleaned, l)
        digits == DigitsOf(cleaned)
    IN  IF parsed.ok /\ parsed.cc = <<"1">>
        THEN Displayed_nor1(LibE164(parsed), Label("Valid & Matched"), country_clean,
                            "parsed")
        ELSE IF parsed.ok
        THEN Displayed_nor1(<<"+","1">> \o parsed.nsn,
                            Label("Forced into US/Caribbean format"), country_clean,
                            "parsed_foreign")
        ELSE IF digits = <<>>
        THEN Result(<<>>, Label("Missing Number"), NoComparison, <<>>, "manual_empty")
        ELSE IF StartsWith(digits, <<"1">>) /\ Len(digits) = 11
        THEN Displayed_nor1(<<"+">> \o digits, Label("Valid & Matched"), country_clean,
                            "manual_11")
        ELSE IF Len(digits) = 10
        THEN Displayed_nor1(<<"+","1">> \o digits, Label("Valid & Matched"),
                            country_clean, "manual_10")
        ELSE IF Len(digits) < 10
        THEN Result(<<>>, Label("Missing Number"), NoComparison, <<>>, "manual_short")
        ELSE Displayed_nor1(<<"+","1">> \o LastN(digits, 10),
                            Label("Forced into US/Caribbean format"), country_clean,
                            "forced")

normalize_number_nor1(number, country_clean, ext, l) ==
    IF IsNullLike(number) \/ ~HasDigit(Str(number))
    THEN Result(<<>>, Label("Missing Number"), NoComparison, <<>>, "missing")
    ELSE LET correct_code == CorrectCode(country_clean, ext)
             digits == DigitsOf(Str(number))
         IN  IF correct_code = <<>>
             THEN Result(<<>>, Label("Unknown country"), NoComparison, <<>>, "unknown")
             ELSE IF IsNanp_nor1(country_clean)
             THEN Nanp_nor1(number, country_clean, l)
             ELSE LET g == GenericCorrect(digits, correct_code, ext, TRUE)
                  IN  IF g.e164 = <<>> THEN g
                      ELSE Displayed_nor1(g.e164, g.verification, country_clean, g.path)

(***************************************************************************)
(* PhoneNor3.py                                                            *)
(***************************************************************************)
\* try_parse: parse(num, "US"), then is_valid_number_for_region(parsed, "US"),
\* which no number under another calling code passes
try_parse_nor3(num, l) ==
    LET p == LibParseValid(num, l)
    IN  IF p.ok /\ p.cc = <<"1">> THEN p ELSE NoParse

IsUsa_nor3(country_clean) == country_clean \in {united_states, usa}

Usa_nor3(number, correct_code, l) ==
    LET cleaned == DigitsOf(Str(number))
        has_plus == StartsWith(Strip(Str(number)), <<"+">>)
        first == try_parse_nor3(number, l)
        second == try_parse_nor3(<<"+">> \o cleaned, l)
        third == try_parse_nor3(<<"+","1">> \o Drop(cleaned, 3), l)
        cleaned1 == IF StartsWith(cleaned, <<"1">>) THEN Drop(cleaned, 1) ELSE cleaned
        corrected == <<"+","1">> \o LastN(cleaned1, 10)
        fourth == try_parse_nor3(corrected, l)
        added == LabelTo("Added country code", correct_code)
    IN  IF first.ok
        THEN Result(LibE164(first), IF has_plus THEN Label("Valid & Matched") ELSE added,
                    NoComparison, LibE164(first), "parsed_original")
        ELSE IF second.ok
        THEN Result(LibE164(second), IF ~has_plus THEN added ELSE Label("Valid & Matched"),
                    NoComparison, LibE164(second), "parsed")
        ELSE IF StartsWith(cleaned, <<"0","0","1">>) /\ third.ok
        THEN Result(LibE164(third), added, NoComparison, LibE164(third), "idd_001")
        ELSE IF fourth.ok
        THEN Result(LibE164(fourth), Label("Forced into US format"), NoComparison,
                    LibE164(fourth), "forced_parsed")
        ELSE Result(corrected, Label("Forced into US format"), NoComparison, corrected,
                    "forced")

normalize_number_nor3(number, country_clean, ext, l) ==
    LET correct_code == CorrectCode(country_clean, ext)
        digits == DigitsOf(Str(number))
    IN  IF correct_code = <<>>
        THEN Result(number, Label("Unknown country"), NoComparison, <<>>, "unknown")
        ELSE IF IsUsa_nor3(country_clean)
        THEN Usa_nor3(number, correct_code, l)
        ELSE LET g == GenericCorrect(digits, correct_code, ext, FALSE)
             IN  Result(g.e164, g.verification, NoComparison, g.e164, g.path)

(***************************************************************************)
(* Phone_norr5.py                                                          *)
(***************************************************************************)
caribbean ==
    {antigua_and_barbuda, bahamas, the_bahamas, barbados, cuba, dominica,
     dominican_republic, grenada, haiti, jamaica, saint_kitts_and_nevis,
     st_kitts_and_nevis, saint_lucia, st_lucia, saint_vincent_and_the_grenadines,
     st_vincent_and_the_grenadines, trinidad_and_tobago}

IsNanp_norr5(c) == c \in {united_states, usa, canada} \/ c \in caribbean

\* expected_lengths.get(c), 0 for None
expected_lengths(c) ==
    IF c \in {usa, united_states, canada} \cup caribbean THEN 10
    ELSE IF c \in {united_kingdom, mexico, india, brazil} THEN 10
    ELSE IF c = australia THEN 9
    ELSE IF c = new_zealand THEN 8
    ELSE 0

\* sub in s
Contains(s, sub) ==
    \E i \in 0..(Len(s) - Len(sub)) : SubSeq(s, i + 1, i + Len(sub)) = sub

\* a slip: the "+1-(" rule tried before the duplicated-868 rule
compute_comparison_nanpFirst(original, corrected) ==
    LET orig == Strip(Str(original))
        corr == Strip(Str(corrected))
    IN  IF orig = corr THEN "Unchanged"
        ELSE IF StartsWith(corr, <<"+","1","-","(">>) /\ ~StartsWith(orig, <<"+","1">>)
        THEN "Added +1 + reformatted into NANP"
        ELSE IF Contains(orig, <<"8","6","8">>) /\ Contains(corr, <<"(","8","6","8",")">>)
        THEN "Removed duplicated 868 prefix + reformatted"
        ELSE IF StartsWith(corr, <<"+","4","4">>) /\ ~StartsWith(orig, <<"+","4","4">>)
        THEN "Added +44 + UK formatting"
        ELSE IF StartsWith(corr, <<"+","9","1">>) /\ ~StartsWith(orig, <<"+","9","1">>)
        THEN "Added +91 + India formatting"
        ELSE IF StartsWith(corr, <<"+","5","2">>) /\ ~StartsWith(orig, <<"+","5","2">>)
        THEN "Added +52 + Mexico formatting"
        ELSE IF StartsWith(corr, <<"+","5","5">>) /\ ~StartsWith(orig, <<"+","5","5">>)
        THEN "Added +55 + Brazil formatting"
        ELSE IF DigitsOf(orig) = DigitsOf(corr) THEN "Formatting changed only"
        ELSE IF Len(DigitsOf(orig)) > Len(DigitsOf(corr)) THEN "Trimmed extra digits"
        ELSE "Changed digits"

compute_comparison(original, corrected) ==
    LET orig == Strip(Str(original))
        corr == Strip(Str(corrected))
    IN  IF orig = corr THEN "Unchanged"
        ELSE IF Contains(orig, <<"8","6","8">>) /\ Contains(corr, <<"(","8","6","8",")">>)
        THEN "Removed duplicated 868 prefix + reformatted"
        ELSE IF StartsWith(corr, <<"+","1","-","(">>) /\ ~StartsWith(orig, <<"+","1">>)
        THEN "Added +1 + reformatted into NANP"
        ELSE IF StartsWith(corr, <<"+","4","4">>) /\ ~StartsWith(orig, <<"+","4","4">>)
        THEN "Added +44 + UK formatting"
        ELSE IF StartsWith(corr, <<"+","9","1">>) /\ ~StartsWith(orig, <<"+","9","1">>)
        THEN "Added +91 + India formatting"
        ELSE IF StartsWith(corr, <<"+","5","2">>) /\ ~StartsWith(orig, <<"+","5","2">>)
        THEN "Added +52 + Mexico formatting"
        ELSE IF StartsWith(corr, <<"+","5","5">>) /\ ~StartsWith(orig, <<"+","5","5">>)
        THEN "Added +55 + Brazil formatting"
        ELSE IF DigitsOf(orig) = DigitsOf(corr) THEN "Formatting changed only"
        ELSE IF Len(DigitsOf(orig)) > Len(DigitsOf(corr)) THEN "Trimmed extra digits"
        ELSE "Changed digits"

format_by_country_norr5(e164, country) ==
    LET digits == DigitsOf(e164)
        c == Lower(country)
    IN  IF c \in {uk, gb, united_kingdom}
        THEN LET n == StripCode(digits, <<"4","4">>)
             IN  <<"+","4","4","-">> \o Take(n, 4) \o <<"-">> \o Slice(n, 4, 7)
                 \o <<"-">> \o Drop(n, 7)
        ELSE IF c = india
        THEN LET n == StripCode(digits, <<"9","1">>)
             IN  <<"+","9","1","-">> \o Take(n, 2) \o <<"-">> \o Drop(n, 2)
        ELSE IF c = mexico
        THEN LET n == StripCode(digits, <<"5","2">>)
             IN  <<"+","5","2","-">> \o Take(n, 3) \o <<"-">> \o Slice(n, 3, 6)
                 \o <<"-">> \o Drop(n, 6)
        ELSE IF c = brazil
        THEN LET n == StripCode(digits, <<"5","5">>)
             IN  <<"+","5","5","-">> \o Take(n, 2) \o <<"-">> \o Slice(n, 2, 6)
                 \o <<"-">> \o Drop(n, 6)
        ELSE e164

\* c = str(country_clean).lower().strip(), then the alias fold
CanonicalCountry_norr5(country_clean) ==
    LET c == Strip(Lower(country_clean))
    IN  IF c \in {uk, gb, u_k_, unitedkingdom} THEN united_kingdom ELSE c

\* return out, label, compute_comparison(original, out)
Compared_norr5(original, out, label, e164, path) ==
    Result(out, label, compute_comparison(original, out), e164, path)

\* try_parse: a valid number under any calling code, else None
try_parse_norr5(n, l) == LibParseValid(n, l)

\* a slip: len(cleaned) >= 11
IsDoubled868_from11(c, cleaned) ==
    /\ c = trinidad_and_tobago
    /\ StartsWith(cleaned, <<"1","8","6","8","8","6","8">>)
    /\ Len(cleaned) >= 11

\* c == "trinidad and tobago" and cleaned.startswith("1868868") and len(cleaned) > 11
IsDoubled868(c, cleaned) ==
    /\ c = trinidad_and_tobago
    /\ StartsWith(cleaned, <<"1","8","6","8","8","6","8">>)
    /\ Len(cleaned) > 11

\* local7 = cleaned[-7:]; out = f"+1-(868)-{local7[:3]}-{local7[3:]}"
Repair868(cleaned) ==
    LET local7 == LastN(cleaned, 7)
    IN  <<"+","1","-","(","8","6","8",")","-">> \o Take(local7, 3) \o <<"-">>
        \o Drop(local7, 3)

Nanp_norr5(original, c, l) ==
    LET cleaned == DigitsOf(original)
        first == try_parse_norr5(original, l)
        second == try_parse_norr5(<<"+">> \o cleaned, l)
        parsed == IF first.ok THEN first ELSE second
        nat == LastN(DigitsOf(LibE164(parsed)), 10)
    IN  IF IsDoubled868(c, cleaned)
        THEN Compared_norr5(original, Repair868(cleaned), Label("Valid & Matched"), <<>>,
                            "trinidad")
        ELSE IF parsed.ok
        THEN Compared_norr5(original, NanpDisplay(nat), Label("Valid & Matched"),
                            LibE164(parsed), "parsed")
        ELSE Compared_norr5(original, NanpDisplay(LastN(cleaned, 10)),
                            Label("Forced into US format"), <<>>, "forced")

Generic_norr5(original, c, correct_code) ==
    LET digits == DigitsOf(original)
        corrected == IF ~StartsWith(digits, correct_code)
                     THEN <<"+">> \o correct_code \o digits
                     ELSE <<"+">> \o digits
        formatted == format_by_country_norr5(corrected, c)
        expected == expected_lengths(c)
    IN  IF expected # 0 /\ Len(DigitsOf(formatted)) < Len(correct_code) + expected
        THEN Compared_norr5(original, formatted, Label("Missing Data"), corrected,
                            "missing_data")
        ELSE Compared_norr5(original, formatted, Label("Valid & Matched"), corrected,
                            "generic")

normalize_number_norr5(number, country_clean, ext, l) ==
    IF IsNullLike(number) \/ ~HasDigit(Str(number))
    THEN Result(<<>>, Label("Missing Number"), "Missing Number", <<>>, "missing")
    ELSE LET original == Str(number)
             c == CanonicalCountry_norr5(country_clean)
             correct_code == CorrectCode(c, ext)
         IN  IF correct_code = <<>>
             THEN Result(number, Label("Unknown country"), "Unknown country", <<>>,
                         "unknown")
             ELSE IF IsNanp_norr5(c)
             THEN Nanp_norr5(original, c, l)
             ELSE Generic_norr5(original, c, correct_code)

(***************************************************************************)
(* The rows of the uploaded sheet.                                         *)
(***************************************************************************)
\* subscriber digits; a tail is a prefix of one of them
BodyDigits ==
    {<<"5","5","5","1","2","3","4","5","6","7","8","9">>,
     <<"8","6","8","1","2","3","4","5","6","7","8","9">>}

Bodies == {Take(b, n) : b \in BodyDigits, n \in 0..MaxBody}

\* what a sheet's author writes before the subscriber digits: nothing, a trunk
\* zero, an exit code, a dialing code, the duplicated Trinidad prefix
Prefixes ==
    {<<>>, <<"0">>, <<"0","0","1">>, <<"1">>, <<"4","4">>, <<"9","1">>, <<"5","2">>,
     <<"5","5">>, <<"6","1">>, <<"6","4">>, <<"3","3">>, <<"5","3">>,
     <<"1","2","4","2">>, <<"1","8","6","8">>, <<"1","8","6","8","8","6","8">>}

PlainNumbers == {plus \o p \o b : plus \in {<<>>, <<"+">>}, p \in Prefixes, b \in Bodies}

\* "+44 555 123 4567"
SpacedNumbers ==
    {<<"+">> \o p \o <<" ">> \o Take(b, 3) \o <<" ">> \o Slice(b, 3, 6) \o <<" ">>
        \o Slice(b, 6, 10) : p \in Prefixes \ {<<>>}, b \in BodyDigits}

\* "+1-(555)-123-4567"
DisplayedNumbers == {NanpDisplay(Take(b, 10)) : b \in BodyDigits}

\* cells without a digit, and the missing cell
BlankNumbers == {<<>>, NoneValue, <<"-">>, <<" ">>, <<"n","/","a">>}

\* cells with blanks around the number
PaddedNumbers ==
    {<<" ">> \o n \o <<" ">> : n \in DisplayedNumbers}
    \cup {<<" ">> \o Take(b, 10) : b \in BodyDigits}

PhoneNumbers ==
    PlainNumbers \cup SpacedNumbers \cup DisplayedNumbers \cup PaddedNumbers
    \cup BlankNumbers

Countries ==
    {united_states, usa, canada, trinidad_and_tobago, cuba, bahamas, bermuda,
     united_kingdom, uk, india, mexico, brazil, australia, new_zealand, france,
     atlantis, <<"U","K">>, <<" ","I","n","d","i","a">>}

Scripts == {"Phone_nor1", "PhoneNor3", "Phone_norr5"}

(***************************************************************************)
(* State.                                                                  *)
(***************************************************************************)
VARIABLES
    script,          \* the script that is running
    external_codes,  \* the dict load_external_country_codes returned
    pc,              \* "idle", "row" (a row is read), "done" (its result is written)
    number,          \* the row's "Phone Number" cell
    country,         \* the row's "Country" cell
    lib,             \* the library's answers for this row's number
    op,              \* the function applied to the row
    result           \* what it returned

vars == <<script, external_codes, pc, number, country, lib, op, result>>

\* df["Country_clean"] = df["Country"].astype(str).str.strip().str.lower()
CountryClean == Lower(Strip(country))

Init ==
    /\ script \in Scripts
    /\ external_codes \in ExternalTables
    /\ pc = "idle"
    /\ number = <<>>
    /\ country = <<>>
    /\ lib = [nanp |-> {}, foreign |-> FALSE]
    /\ op = "none"
    /\ result = NoResult

\* df.apply reaches the next row of the sheet
LoadRow ==
    /\ pc = "idle"
    /\ \E n \in PhoneNumbers, c \in Countries :
         \E l \in LibAnswers(DigitsOf(Str(n))) :
            /\ number' = n
            /\ country' = c
            /\ lib' = l
    /\ pc' = "row"
    /\ UNCHANGED <<script, external_codes, op, result>>

Returns(name, r) ==
    /\ pc = "row"
    /\ op' = name
    /\ result' = r
    /\ pc' = "done"
    /\ UNCHANGED <<script, external_codes, number, country, lib>>

NormalizeNor1 ==
    /\ script = "Phone_nor1"
    /\ Returns("normalize_number",
               normalize_number_nor1(number, CountryClean, external_codes, lib))

NormalizeNor3 ==
    /\ script = "PhoneNor3"
    /\ Returns("normalize_number",
               normalize_number_nor3(number, CountryClean, external_codes, lib))

NormalizeNorr5 ==
    /\ script = "Phone_norr5"
    /\ Returns("normalize_number",
               normalize_number_norr5(number, CountryClean, external_codes, lib))

\* format_by_country applied to the cell as it stands
FormatNor1 ==
    /\ script = "Phone_nor1"
    /\ number # NoneValue
    /\ Returns("format_by_country",
               Result(format_by_country_nor1(number, CountryClean), Label("none"),
                      NoComparison, number, "format"))

FormatNorr5 ==
    /\ script = "Phone_norr5"
    /\ number # NoneValue
    /\ Returns("format_by_country",
               Result(format_by_country_norr5(number, CountryClean), Label("none"),
                      NoComparison, number, "format"))

\* the row's result is stored; the next row follows
NextRow ==
    /\ pc = "done"
    /\ pc' = "idle"
    /\ number' = <<>>
    /\ country' = <<>>
    /\ lib' = [nanp |-> {}, foreign |-> FALSE]
    /\ op' = "none"
    /\ result' = NoResult
    /\ UNCHANGED <<script, external_codes>>

Next ==
    \/ LoadRow
    \/ NormalizeNor1
    \/ NormalizeNor3
    \/ NormalizeNorr5
    \/ FormatNor1
    \/ FormatNorr5
    \/ NextRow

Spec == Init /\ [][Next]_vars

(***************************************************************************)
(* Vocabulary of the properties.                                           *)
(***************************************************************************)
Normalized == pc = "done" /\ op = "normalize_number"

Formatted == pc = "done" /\ op = "format_by_country"

\* the digit string of the row's number
RowDigits == DigitsOf(Str(number))

\* the number has at least one digit
HasNumber == ~IsNullLike(number) /\ HasDigit(Str(number))

\* the name the running script looks up in the tables
LookupName ==
    IF script = "Phone_norr5" THEN CanonicalCountry_norr5(CountryClean) ELSE CountryClean

\* the dialing code the resolver returns for the row's country ("" for none)
ResolvedCode == CorrectCode(LookupName, external_codes)

InNeitherTable(c) == c \notin DOMAIN internal_codes /\ c \notin DOMAIN external_codes

\* the running script sends the row's country to its NANP branch
RoutedToNanp ==
    CASE script = "Phone_nor1" -> IsNanp_nor1(LookupName)
      [] script = "PhoneNor3" -> IsUsa_nor3(LookupName)
      [] OTHER -> IsNanp_norr5(LookupName)

(***************************************************************************)
(* C1.  Unknown country: for a number with at least one digit and a        *)
(* country name found in neither table, normalize_number returns the       *)
(* original number unchanged with the label "Unknown country".             *)
(* Phone_nor1.py returns the empty string instead.                         *)
(***************************************************************************)
C1_UnknownCountryKeepsNumber ==
    (Normalized /\ HasNumber /\ InNeitherTable(CountryClean) /\ InNeitherTable(LookupName))
        => /\ result.corrected = number
           /\ result.verification.kind = "Unknown country"

(***************************************************************************)
(* C2.  Missing number: when the raw number is empty, None or has no digit *)
(* normalize_number returns ("", "Missing Number") for every country,      *)
(* known or not.  PhoneNor3.py has no such check.                          *)
(***************************************************************************)
C2_MissingNumberFirst ==
    (Normalized /\ ~HasNumber)
        => /\ result.corrected = <<>>
           /\ result.verification.kind = "Missing Number"

\* the row reached the generic corrector of the running script
GenericRow == Normalized /\ HasNumber /\ ResolvedCode # <<>> /\ ~RoutedToNanp

\* the union of all internal and external known dialing codes
KnownCodes == AllCodes(internal_codes) \cup AllCodes(external_codes)

\* the known codes that are a prefix of d
PrefixCodes(d) == {c \in KnownCodes : StartsWith(d, c)}

\* the longest of them ("" when there is none)
LongestPrefixCode(d) ==
    IF PrefixCodes(d) = {} THEN <<>>
    ELSE CHOOSE c \in PrefixCodes(d) : \A c2 \in PrefixCodes(d) : Len(c2) <= Len(c)

(***************************************************************************)
(* C3.  Generic corrector, decision table on the longest matched code M    *)
(* for a non-NANP country with code K and digits d: no match gives "+" K   *)
(* and d without its leading zeros, "Added country code"; M = K gives "+"  *)
(* d, "Valid & Matched"; M # K (M not starting with "1") gives "+" K and d *)
(* without its first len(M) digits, "Corrected from M -> K".  (The case    *)
(* where stripping the zeros leaves nothing is left out here.)             *)
(* Phone_norr5.py only prepends K when d does not start with K.            *)
(***************************************************************************)
C3_GenericDecisionTable ==
    GenericRow =>
        LET d == RowDigits
            K == ResolvedCode
            M == LongestPrefixCode(d)
        IN  CASE M = <<>> ->
                    LStripZeros(d) # <<>> =>
                        /\ result.e164 = <<"+">> \o K \o LStripZeros(d)
                        /\ result.verification = LabelTo("Added country code", K)
              [] M # <<>> /\ M = K ->
                    /\ result.e164 = <<"+">> \o d
                    /\ result.verification = Label("Valid & Matched")
              [] M # <<>> /\ M # K /\ Head(M) # "1" ->
                    /\ result.e164 = <<"+">> \o K \o Drop(d, Len(M))
                    /\ result.verification = LabelFromTo("Corrected from", M, K)
              [] OTHER -> TRUE

(***************************************************************************)
(* C4.  Longest-prefix match (Phone_nor1.py, PhoneNor3.py): the matched    *)
(* code of the generic corrector is a known code that prefixes the digits  *)
(* and no known prefix of the digits is longer; no code is matched exactly *)
(* when no known code is a prefix.                                         *)
(***************************************************************************)
C4_LongestPrefixMatch ==
    (GenericRow /\ script \in {"Phone_nor1", "PhoneNor3"}) =>
        LET P == PrefixCodes(RowDigits)
        IN  /\ (result.path \in {"added", "stripped_empty"}) <=> (P = {})
            /\ result.path = "corrected" =>
                  /\ result.verification.from \in P
                  /\ \A c \in P : Len(c) <= Len(result.verification.from)
            /\ result.path = "matched" =>
                  /\ ResolvedCode \in P
                  /\ \A c \in P : Len(c) <= Len(ResolvedCode)

\* "1" and "1242" both prefix the digits, and "1242" is the matched code
C4_Witness ==
    /\ GenericRow
    /\ script = "Phone_nor1"
    /\ result.path = "corrected"
    /\ result.verification.from = <<"1","2","4","2">>
    /\ <<"1">> \in PrefixCodes(RowDigits)

\* the row reached the NANP branch of the running script
NanpRow == Normalized /\ ResolvedCode # <<>> /\ RoutedToNanp

\* the cell is digits only
PlainDigits == number # NoneValue /\ number = RowDigits

\* the cell starts with "+"
HasPlus == StartsWith(Strip(Str(number)), <<"+">>)

\* the last n characters of d, for Len(d) >= n
TailOf(d, n) == [i \in 1..n |-> d[Len(d) - n + i]]

\* ten digits x written as +1-(DDD)-DDD-DDDD
NanpShape(x) ==
    <<"+", "1", "-", "(", x[1], x[2], x[3], ")", "-", x[4], x[5], x[6], "-",
      x[7], x[8], x[9], x[10]>>

\* d without a leading "1"
WithoutLeadingOne(d) == IF d # <<>> /\ d[1] = "1" THEN Tail(d) ELSE d

\* the library holds "+" and the digits valid under a calling code other than 1
ForeignValid ==
    LET p == LibParseInternational(RowDigits, lib) IN p.ok /\ p.cc # <<"1">>

\* the library holds valid none of the strings the row makes a script parse
NoParseSucceeds == lib.nanp = {} /\ ~lib.foreign

C6_ShortNanpIsMissing ==
    (NanpRow /\ HasNumber /\ Len(RowDigits) < 10 /\ NoParseSucceeds) =>
        /\ result.corrected = <<>>
        /\ result.verification.kind = "Missing Number"

C8_TrinidadRepair ==
    (Normalized /\ script = "Phone_norr5") =>
        LET d == RowDigits
            doubled == /\ HasNumber
                       /\ LookupName = trinidad_and_tobago
                       /\ StartsWith(d, <<"1","8","6","8","8","6","8">>)
                       /\ Len(d) > 11
        IN  /\ (result.path = "trinidad") <=> doubled
            /\ doubled =>
                  LET x == TailOf(d, 7)
                  IN  result.corrected =
                        <<"+","1","-","(","8","6","8",")","-", x[1], x[2], x[3], "-",
                          x[4], x[5], x[6], x[7]>>

\* "18688685551234" is repaired to +1-(868)-555-1234
C8_Witness ==
    /\ Normalized
    /\ script = "Phone_norr5"
    /\ RowDigits = <<"1","8","6","8","8","6","8","5","5","5","1","2","3","4">>
    /\ result.path = "trinidad"
    /\ result.corrected =
         <<"+","1","-","(","8","6","8",")","-","5","5","5","-","1","2","3","4">>

\* s is +1-(DDD)-DDD-DDDD
IsNanpShaped(s) ==
    /\ s # NoneValue
    /\ Len(s) = 17
    /\ Len(DigitsOf(s)) = 11
    /\ s = NanpShape(Tail(DigitsOf(s)))

(***************************************************************************)
(* C9.  Idempotence for NANP (Phone_nor1.py, Phone_norr5.py): for a NANP   *)
(* country that resolves and a string s of the form +1-(DDD)-DDD-DDDD,     *)
(* format_by_country of s, and normalize_number of s whichever way the     *)
(* validity check answers, return s.                                       *)
(***************************************************************************)
C9_NanpIdempotent ==
    (/\ pc = "done"
     /\ script \in {"Phone_nor1", "Phone_norr5"}
     /\ IsNanpShaped(number)
     /\ RoutedToNanp
     /\ ResolvedCode # <<>>) => result.corrected = number

\* normalize_number of Phone_nor1.py on a string the library holds valid
C9_Witness ==
    /\ Normalized
    /\ script = "Phone_nor1"
    /\ IsNanpShaped(number)
    /\ RoutedToNanp
    /\ lib.nanp # {}
    /\ result.path = "parsed"
    /\ result.corrected = number

\* the cell is "+", the country's dialing code, then national digits
PlusCodeDigits ==
    /\ number # NoneValue
    /\ number = <<"+">> \o RowDigits
    /\ ResolvedCode # <<>>
    /\ StartsWith(RowDigits, ResolvedCode)

OnlySeparatorsAdded(s) == \A i \in 1..Len(s) : s[i] \in DigitChars \cup {"+", "-", "(", ")"}

(***************************************************************************)
(* C10 as claimed.  For every country and every input "+", the country's   *)
(* dialing code and national digits, the digits of format_by_country's     *)
(* output are the digits of its input.                                     *)
(***************************************************************************)
C10_FormatKeepsDigitsAlways ==
    (Formatted /\ PlusCodeDigits) => DigitsOf(result.corrected) = RowDigits

(***************************************************************************)
(* C10 amended.  The digits of format_by_country's output are the digits   *)
(* of its input, and only "+", "-", "(", ")" are added, for every country  *)
(* outside the NANP list of Phone_nor1.py, and for a country of that list  *)
(* when the input is "+1" followed by exactly ten digits (otherwise that   *)
(* branch keeps the last ten digits after a "1" of its own).               *)
(***************************************************************************)
C10_FormatKeepsDigits ==
    (/\ Formatted
     /\ PlusCodeDigits
     /\ (script = "Phone_nor1" /\ IsNanp_nor1(CountryClean))
           => (Len(RowDigits) = 11 /\ RowDigits[1] = "1"))
    => /\ DigitsOf(result.corrected) = RowDigits
       /\ OnlySeparatorsAdded(result.corrected)

\* +915551234567 for india is shown as +91-55-51234567
C10_Witness ==
    /\ Formatted
    /\ script = "Phone_nor1"
    /\ CountryClean = india
    /\ number = <<"+","9","1","5","5","5","1","2","3","4","5","6","7">>
    /\ result.corrected =
         <<"+","9","1","-","5","5","-","5","1","2","3","4","5","6","7">>

\* the national digits of d for dialing code k: k stripped if d begins with it
NationalOf(d, k) == IF StartsWith(d, k) THEN Drop(d, Len(k)) ELSE d

\* "+" k "-" and n cut after a digits and again after a + b digits
Grouped3(k, n, a, b) ==
    <<"+">> \o k \o <<"-">> \o Take(n, a) \o <<"-">> \o Slice(n, a, a + b) \o <<"-">>
    \o Drop(n, a + b)

\* "+" k "-" and n cut once after a digits
Grouped2(k, n, a) == <<"+">> \o k \o <<"-">> \o Take(n, a) \o <<"-">> \o Drop(n, a)

\* the countries of the grouping table other than the NANP members
TableCountries == {united_kingdom, mexico, india, brazil, australia, new_zealand}

\* the rendering the grouping table states for country key c and digits d
TableRendering(c, d) ==
    CASE c = united_kingdom -> Grouped3(<<"4","4">>, NationalOf(d, <<"4","4">>), 4, 3)
      [] c = mexico -> Grouped3(<<"5","2">>, NationalOf(d, <<"5","2">>), 3, 3)
      [] c = india -> Grouped2(<<"9","1">>, NationalOf(d, <<"9","1">>), 2)
      [] c = brazil -> Grouped3(<<"5","5">>, NationalOf(d, <<"5","5">>), 2, 4)
      [] c = australia -> Grouped3(<<"6","1">>, NationalOf(d, <<"6","1">>), 1, 4)
      [] c = new_zealand -> Grouped3(<<"6","4">>, NationalOf(d, <<"6","4">>), 1, 3)

\* a country key that is neither in the grouping table nor a NANP member nor an
\* alias of a table country
OutsideTable(c) ==
    /\ c \notin TableCountries
    /\ c \notin {uk, gb, u_k_, unitedkingdom}
    /\ ~IsNanp_nor1(c)

(***************************************************************************)
(* C11.  format_by_country renders by country key as the grouping table    *)
(* states, for national numbers of every length: united kingdom 4/3/rest,  *)
(* mexico 3/3/rest, india 2/rest, brazil 2/4/rest, australia 1/4/rest, new *)
(* zealand 1/3/rest, each after "+", the code and "-", with the leading    *)
(* code stripped if present; a country outside the table gets its input    *)
(* back.  (Inputs without a digit are left out.)  Phone_norr5.py has no    *)
(* australia and new zealand entries; Phone_nor1.py splits india only for  *)
(* ten national digits or more.                                            *)
(***************************************************************************)
C11_GroupingTable ==
    (Formatted /\ RowDigits # <<>>) =>
        /\ CountryClean \in TableCountries =>
              result.corrected = TableRendering(CountryClean, RowDigits)
        /\ OutsideTable(CountryClean) => result.corrected = number

\* the row's result carries a label of compute_comparison (Phone_norr5.py)
Compared ==
    /\ Normalized
    /\ script = "Phone_norr5"
    /\ result.path \in {"trinidad", "parsed", "forced", "missing_data", "generic"}

\* sub occurs in s
HasSub(s, sub) ==
    \E i \in 1..Len(s) :
        /\ i + Len(sub) - 1 <= Len(s)
        /\ \A j \in 1..Len(sub) : s[i + j - 1] = sub[j]

\* corrected c begins with prefix p and original o does not begin with q
AddedPrefix(o, c, p, q) == StartsWith(c, p) /\ ~StartsWith(o, q)

\* the rules of the classifier in their order, for original o and corrected c
ComparisonRules(o, c) ==
    << [when |-> o = c, label |-> "Unchanged"],
       [when |-> HasSub(o, <<"8","6","8">>) /\ HasSub(c, <<"(","8","6","8",")">>),
        label |-> "Removed duplicated 868 prefix + reformatted"],
       [when |-> AddedPrefix(o, c, <<"+","1","-","(">>, <<"+","1">>),
        label |-> "Added +1 + reformatted into NANP"],
       [when |-> AddedPrefix(o, c, <<"+","4","4">>, <<"+","4","4">>),
        label |-> "Added +44 + UK formatting"],
       [when |-> AddedPrefix(o, c, <<"+","9","1">>, <<"+","9","1">>),
        label |-> "Added +91 + India formatting"],
       [when |-> AddedPrefix(o, c, <<"+","5","2">>, <<"+","5","2">>),
        label |-> "Added +52 + Mexico formatting"],
       [when |-> AddedPrefix(o, c, <<"+","5","5">>, <<"+","5","5">>),
        label |-> "Added +55 + Brazil formatting"],
       [when |-> DigitsOf(o) = DigitsOf(c), label |-> "Formatting changed only"],
       [when |-> Len(DigitsOf(c)) < Len(DigitsOf(o)), label |-> "Trimmed extra digits"],
       [when |-> TRUE, label |-> "Changed digits"] >>

\* the label of the first rule that matches
FirstRuleLabel(o, c) ==
    LET r == ComparisonRules(o, c)
        i == CHOOSE k \in 1..Len(r) : r[k].when /\ \A j \in 1..(k - 1) : ~r[j].when
    IN  r[i].label

(***************************************************************************)
(* C12 as claimed.  compute_comparison(original, corrected) returns the    *)
(* label of the first rule that matches, in the order: the two strings     *)
(* equal verbatim; duplicated-868 artifact; corrected has a "+1-(", "+44", *)
(* "+91", "+52" or "+55" prefix the original lacked; equal digits; fewer   *)
(* digits in corrected; otherwise "Changed digits".                        *)
(***************************************************************************)
C12_FirstRuleVerbatim ==
    Compared => result.comparison = FirstRuleLabel(Str(number), result.corrected)

(***************************************************************************)
(* C12 amended.  The same first-match order, with every rule applied to    *)
(* the two strings after the blanks around them are trimmed: an original   *)
(* that differs from the corrected number only by surrounding blanks is    *)
(* "Unchanged".                                                            *)
(***************************************************************************)
C12_FirstRule ==
    Compared =>
        result.comparison = FirstRuleLabel(Strip(Str(number)), Strip(result.corrected))

\* "5551234567" corrected to "+1-(555)-123-4567" is "Added +1 + reformatted into NANP"
C12_Witness ==
    /\ Compared
    /\ number = <<"5","5","5","1","2","3","4","5","6","7">>
    /\ result.corrected = NanpShape(number)
    /\ result.comparison = "Added +1 + reformatted into NANP"

\* the country name trimmed, lowercased and with the aliases folded
FoldedName ==
    LET c == Lower(Strip(country))
    IN  IF c \in {uk, gb, u_k_, unitedkingdom} THEN united_kingdom ELSE c

\* the code of the internal table when it has the key, otherwise that of the
\* external table, otherwise "" (not found)
TableCode(c) ==
    IF c \in DOMAIN internal_codes THEN internal_codes[c]
    ELSE IF c \in DOMAIN external_codes THEN external_codes[c]
    ELSE <<>>

(***************************************************************************)
(* C13.  Country resolution: the name is trimmed, lowercased and its       *)
(* aliases "uk", "gb", "u.k.", "unitedkingdom" folded to "united kingdom"; *)
(* the code is the internal table's when it has the key, otherwise the     *)
(* external table's, otherwise not found.  Read off normalize_number: the  *)
(* row is "Unknown country" exactly when that code is not found, and a     *)
(* label that names the correct code names that code.  Phone_nor1.py and   *)
(* PhoneNor3.py do not fold the aliases.                                   *)
(***************************************************************************)
C13_Resolution ==
    (Normalized /\ HasNumber) =>
        /\ (result.verification.kind = "Unknown country") <=> (TableCode(FoldedName) = <<>>)
        /\ result.verification.to # <<>> => result.verification.to = TableCode(FoldedName)

\* the digits left of d for correct code K once the stripping step of the
\* decision table has been applied for the longest matched code
RemainingDigits(d, K) ==
    LET M == LongestPrefixCode(d)
    IN  IF M = <<>> THEN LStripZeros(d)
        ELSE IF M = K THEN d
        ELSE IF Head(M) = "1" /\ K # <<"1">> THEN Tail(d)
        ELSE Drop(d, Len(M))

(***************************************************************************)
(* C14.  Generic corrector: when no digits remain after a stripping step   *)
(* (leading zeros stripped, or the matched wrong code dropped) the result  *)
(* is ("", "Missing Number"), and normalize_number never returns a number  *)
(* whose digits are the dialing code alone.  Phone_nor1.py checks only the *)
(* zero-stripping step; PhoneNor3.py checks nothing.                       *)
(***************************************************************************)
C14_NothingLeftIsMissing ==
    GenericRow =>
        /\ RemainingDigits(RowDigits, ResolvedCode) = <<>> =>
              /\ result.corrected = <<>>
              /\ result.verification.kind = "Missing Number"
        /\ result.corrected # <<>> => DigitsOf(result.corrected) # ResolvedCode

(***************************************************************************)
(* C15.  Generic corrector (Phone_nor1.py, PhoneNor3.py): when the matched *)
(* code M differs from the correct code K, M starts with "1" and K is not  *)
(* "1", only the single leading "1" is dropped before K is prepended, and  *)
(* the label still names the whole of M, "Corrected from M -> K"; when M   *)
(* does not start with "1", the first len(M) digits are dropped.           *)
(***************************************************************************)
C15_LeadingOneRule ==
    (GenericRow /\ script \in {"Phone_nor1", "PhoneNor3"}) =>
        LET d == RowDigits
            K == ResolvedCode
            M == LongestPrefixCode(d)
        IN  (M # <<>> /\ M # K) =>
              /\ result.verification = LabelFromTo("Corrected from", M, K)
              /\ (Head(M) = "1" /\ K # <<"1">>) =>
                    result.e164 = <<"+">> \o K \o TailOf(d, Len(d) - 1)
              /\ Head(M) # "1" =>
                    result.e164 = <<"+">> \o K \o TailOf(d, Len(d) - Len(M))

\* "12425551234" for united kingdom: 1242 is matched, only the 1 is dropped
C15_Witness ==
    /\ GenericRow
    /\ script = "Phone_nor1"
    /\ CountryClean = united_kingdom
    /\ number = <<"1","2","4","2","5","5","5","1","2","3","4">>
    /\ result.verification = LabelFromTo("Corrected from", <<"1","2","4","2">>, <<"4","4">>)
    /\ result.e164 = <<"+","4","4","2","4","2","5","5","5","1","2","3","4">>

(***************************************************************************)
(* C16.  For every known country and every input, a non-empty corrected    *)
(* number begins with "+" and the dialing code the resolver returned for   *)
(* the country; every country routed to the NANP branch, "cuba" and        *)
(* "haiti" included, has resolved code "1".  Stated for the rows on which  *)
(* the library holds nothing valid, so that no answer of it is relied on.  *)
(* The Caribbean sets list cuba (53) and haiti (509), whose numbers the    *)
(* NANP branch writes under "+1".                                          *)
(***************************************************************************)
C16_CorrectedCarriesResolvedCode ==
    (Normalized /\ ResolvedCode # <<>> /\ result.corrected # <<>> /\ NoParseSucceeds) =>
        /\ StartsWith(result.corrected, <<"+">> \o ResolvedCode)
        /\ RoutedToNanp => ResolvedCode = <<"1">>

============================================================================
